---- MODULE Spec2Model ----
(***************************************************************************)
(* Model of the ESP32 TWAI (CAN) adapter of src/src/can_twai.c.            *)
(*                                                                         *)
(* The adapter is a thin layer over the ESP-IDF TWAI driver.  The driver   *)
(* is an external collaborator: it is modelled by the Drv* operators as a  *)
(* controller state machine (UNINSTALLED, STOPPED, RUNNING, BUS_OFF,       *)
(* RECOVERING) whose calls fail with ESP_ERR_INVALID_STATE when issued in  *)
(* the wrong state, and whose install, start, transmit and receive calls   *)
(* may in addition report a fault chosen by the environment.               *)
(*                                                                         *)
(* Every adapter function is an operator that threads the controller state *)
(* through the driver calls in the order of the C code and records each    *)
(* driver call (function, tick argument, result) in a call log.            *)
(***************************************************************************)
EXTENDS Integers, Sequences, FiniteSets, TLC

\* ------------------------------------------------------------------ bounds
\* number of distinct configurations a caller may pass to init
NumConfigs == 2

\* how many times the environment disturbs a retrying sender (a bus-off, a
\* failing transmit, a failing restart) before the bus stays healthy
MaxDisturbances == 2

\* how many frames the bus delivers in one burst
MaxBurst == 66

\* capacity of the delivery queue between producer and consumer
RX_QUEUE_LENGTH == 64

\* ------------------------------------------------------- program constants
\* maximum payload length of a classic CAN frame
TWAI_FRAME_MAX_DLC == 8

\* ------------------------------------------------------------- data model
ESP_OK == "ESP_OK"
ESP_ERR_TIMEOUT == "ESP_ERR_TIMEOUT"
ESP_ERR_INVALID_STATE == "ESP_ERR_INVALID_STATE"
ESP_FAIL == "ESP_FAIL"

TWAI_STATE_STOPPED == "STOPPED"
TWAI_STATE_RUNNING == "RUNNING"
TWAI_STATE_BUS_OFF == "BUS_OFF"
TWAI_STATE_RECOVERING == "RECOVERING"
\* no driver object exists (before install / after uninstall)
UNINSTALLED == "UNINSTALLED"

DriverStates ==
  {UNINSTALLED, TWAI_STATE_STOPPED, TWAI_STATE_RUNNING,
   TWAI_STATE_BUS_OFF, TWAI_STATE_RECOVERING}

\* twai_timeouts_config_t: the part of twai_backend_config_t the adapter
\* reads back after init.  k identifies the caller's configuration; the four
\* durations of one configuration are pairwise distinct.
TimeoutsOf(k) ==
  [receive_timeout         |-> 10 * k + 1,
   transmit_timeout        |-> 10 * k + 2,
   bus_off_timeout         |-> 10 * k + 3,
   bus_not_running_timeout |-> 10 * k + 4]

\* twai_backend_config_t values a caller may pass to init
Configs == { [id |-> k, timeouts |-> TimeoutsOf(k)] : k \in 1..NumConfigs }

\* the zero-initialised static twai_config before the first successful init
ZeroConfig ==
  [id |-> 0,
   timeouts |-> [receive_timeout |-> 0, transmit_timeout |-> 0,
                 bus_off_timeout |-> 0, bus_not_running_timeout |-> 0]]

\* data length codes: the largest valid one and the first invalid one
DLCs == {TWAI_FRAME_MAX_DLC, TWAI_FRAME_MAX_DLC + 1}

\* CAN identifiers used on the bus (0x123 and 0x7FF)
Ids == {291, 2047}

\* payloads (the content of twai_message_t.data) used on the bus
Payloads == {"P", "Q"}

\* twai_message_t: identifier, data length code and payload
Frames == [identifier : Ids, data_length_code : DLCs, data : Payloads]

\* one entry of the log of calls an adapter function makes
Call(fn, ticks, res) == [fn |-> fn, ticks |-> ticks, res |-> res]

\* ------------------------------------------------------- the TWAI driver
\* twai_driver_install: creates the driver object in STOPPED state
DrvInstall(s, fault) ==
  IF s # UNINSTALLED THEN [res |-> ESP_ERR_INVALID_STATE, state |-> s]
  ELSE IF fault THEN [res |-> ESP_FAIL, state |-> s]
  ELSE [res |-> ESP_OK, state |-> TWAI_STATE_STOPPED]

\* twai_start: STOPPED -> RUNNING
DrvStart(s, fault) ==
  IF s # TWAI_STATE_STOPPED THEN [res |-> ESP_ERR_INVALID_STATE, state |-> s]
  ELSE IF fault THEN [res |-> ESP_FAIL, state |-> s]
  ELSE [res |-> ESP_OK, state |-> TWAI_STATE_RUNNING]

\* twai_stop: RUNNING -> STOPPED
DrvStop(s) ==
  IF s # TWAI_STATE_RUNNING THEN [res |-> ESP_ERR_INVALID_STATE, state |-> s]
  ELSE [res |-> ESP_OK, state |-> TWAI_STATE_STOPPED]

\* twai_driver_uninstall: allowed in STOPPED and BUS_OFF only
DrvUninstall(s) ==
  IF s \in {TWAI_STATE_STOPPED, TWAI_STATE_BUS_OFF}
  THEN [res |-> ESP_OK, state |-> UNINSTALLED]
  ELSE [res |-> ESP_ERR_INVALID_STATE, state |-> s]

\* twai_get_status_info: fails when no driver is installed
DrvGetStatus(s) ==
  IF s = UNINSTALLED THEN [res |-> ESP_ERR_INVALID_STATE, state |-> s]
  ELSE [res |-> ESP_OK, state |-> s]

\* twai_initiate_recovery: BUS_OFF -> RECOVERING
DrvInitiateRecovery(s) ==
  IF s # TWAI_STATE_BUS_OFF THEN [res |-> ESP_ERR_INVALID_STATE, state |-> s]
  ELSE [res |-> ESP_OK, state |-> TWAI_STATE_RECOVERING]

\* what the controller hardware may do by itself while a task is blocked:
\* a RUNNING controller may go bus-off, a RECOVERING one may finish recovery
\* (and is then STOPPED).  hw says whether the event happens.
HwStep(s, hw) ==
  IF ~hw THEN s
  ELSE IF s = TWAI_STATE_RUNNING THEN TWAI_STATE_BUS_OFF
  ELSE IF s = TWAI_STATE_RECOVERING THEN TWAI_STATE_STOPPED
  ELSE s

\* twai_transmit: the results the driver may report in state s.  A RUNNING
\* controller queues the frame (ESP_OK), finds its queue full for the whole
\* timeout (ESP_ERR_TIMEOUT) or reports a fault; the environment chooses.
DrvTransmitResults(s) ==
  IF s # TWAI_STATE_RUNNING THEN {ESP_ERR_INVALID_STATE}
  ELSE {ESP_OK, ESP_ERR_TIMEOUT, ESP_FAIL}

\* twai_receive: the results the driver may report in state s.  An installed
\* driver delivers a frame from its queue (ESP_OK), finds the queue empty for
\* the whole timeout (ESP_ERR_TIMEOUT) or reports a fault.
DrvReceiveResults(s) ==
  IF s = UNINSTALLED THEN {ESP_ERR_INVALID_STATE}
  ELSE {ESP_OK, ESP_ERR_TIMEOUT, ESP_FAIL}

\* the frames twai_receive may write to the caller's buffer: any frame when
\* it succeeds, none (the buffer is left alone) otherwise
DrvReceiveFrames(r) ==
  IF r = ESP_OK THEN Frames
  ELSE {[identifier |-> 0, data_length_code |-> 0, data |-> "none"]}

\* the environment's choices for a supervisor run that follows a driver
\* call with result r: none to make when the call succeeded
SupervisorChoices(r) == IF r = ESP_OK THEN {FALSE} ELSE BOOLEAN

\* --------------------------------------------------------- the adapter
\* can_twai_init without the cleanup of line 65: a failed start leaves the
\* driver installed
can_twai_init_no_cleanup(s, stored, cfg, fi, fs) ==
  LET i  == DrvInstall(s, fi)
      st == DrvStart(i.state, fs)
      c1 == <<Call("twai_driver_install", 0, i.res)>>
      c2 == Append(c1, Call("twai_start", 0, st.res))
  IN IF i.res # ESP_OK
     THEN [ret |-> FALSE, state |-> i.state, twai_config |-> stored,
           calls |-> c1]
     ELSE IF st.res # ESP_OK
     THEN [ret |-> FALSE, state |-> st.state, twai_config |-> stored,
           calls |-> c2]
     ELSE [ret |-> TRUE, state |-> st.state, twai_config |-> cfg,
           calls |-> c2]

\* can_twai_init with the assignment of line 69 moved before the install:
\* the configuration is stored even when init fails
can_twai_init_stores_first(s, stored, cfg, fi, fs) ==
  LET i  == DrvInstall(s, fi)
      st == DrvStart(i.state, fs)
      u  == DrvUninstall(st.state)
      c1 == <<Call("twai_driver_install", 0, i.res)>>
      c2 == Append(c1, Call("twai_start", 0, st.res))
  IN IF i.res # ESP_OK
     THEN [ret |-> FALSE, state |-> i.state, twai_config |-> cfg,
           calls |-> c1]
     ELSE IF st.res # ESP_OK
     THEN [ret |-> FALSE, state |-> u.state, twai_config |-> cfg,
           calls |-> Append(c2, Call("twai_driver_uninstall", 0, u.res))]
     ELSE [ret |-> TRUE, state |-> st.state, twai_config |-> cfg,
           calls |-> c2]

\* can_twai_init: install, start, store the configuration.
\*   s: controller state, stored: twai_config, cfg: the argument,
\*   fi/fs: the environment makes install/start fail
can_twai_init(s, stored, cfg, fi, fs) ==
  LET i  == DrvInstall(s, fi)
      st == DrvStart(i.state, fs)
      u  == DrvUninstall(st.state)
      c1 == <<Call("twai_driver_install", 0, i.res)>>
      c2 == Append(c1, Call("twai_start", 0, st.res))
  IN IF i.res # ESP_OK
     THEN [ret |-> FALSE, state |-> i.state, twai_config |-> stored,
           calls |-> c1]
     ELSE IF st.res # ESP_OK
     THEN [ret |-> FALSE, state |-> u.state, twai_config |-> stored,
           calls |-> Append(c2, Call("twai_driver_uninstall", 0, u.res))]
     ELSE [ret |-> TRUE, state |-> st.state, twai_config |-> cfg,
           calls |-> c2]

\* can_twai_deinit that does not check the result of twai_stop: it goes on
\* to uninstall and returns the result of the uninstall alone
can_twai_deinit_ignores_stop(s, stored) ==
  LET p  == DrvStop(s)
      u  == DrvUninstall(p.state)
      c2 == <<Call("twai_stop", 0, p.res),
              Call("twai_driver_uninstall", 0, u.res)>>
  IN [ret |-> u.res = ESP_OK, state |-> u.state, twai_config |-> stored,
      calls |-> c2]

\* can_twai_deinit that clears the stored configuration when it succeeds
can_twai_deinit_clears(s, stored) ==
  LET p  == DrvStop(s)
      u  == DrvUninstall(p.state)
      c1 == <<Call("twai_stop", 0, p.res)>>
  IN IF p.res # ESP_OK
     THEN [ret |-> FALSE, state |-> p.state, twai_config |-> stored,
           calls |-> c1]
     ELSE IF u.res # ESP_OK
     THEN [ret |-> FALSE, state |-> u.state, twai_config |-> stored,
           calls |-> Append(c1, Call("twai_driver_uninstall", 0, u.res))]
     ELSE [ret |-> TRUE, state |-> u.state, twai_config |-> ZeroConfig,
           calls |-> Append(c1, Call("twai_driver_uninstall", 0, u.res))]

\* can_twai_deinit: stop, then uninstall; returns at the first failure
can_twai_deinit(s, stored) ==
  LET p  == DrvStop(s)
      u  == DrvUninstall(p.state)
      c1 == <<Call("twai_stop", 0, p.res)>>
  IN IF p.res # ESP_OK
     THEN [ret |-> FALSE, state |-> p.state, twai_config |-> stored,
           calls |-> c1]
     ELSE IF u.res # ESP_OK
     THEN [ret |-> FALSE, state |-> u.state, twai_config |-> stored,
           calls |-> Append(c1, Call("twai_driver_uninstall", 0, u.res))]
     ELSE [ret |-> TRUE, state |-> u.state, twai_config |-> stored,
           calls |-> Append(c1, Call("twai_driver_uninstall", 0, u.res))]

\* the status check with a failed query taken for a successful one
StatusOk_unchecked(res) == TRUE

\* the check of the status query: twai_get_status_info(&status) == ESP_OK
StatusOk(res) == res = ESP_OK

\* the bus-off check left out: bus-off is handled like any other state
IsBusOff_never(st) == FALSE

\* the first policy check: status.state == TWAI_STATE_BUS_OFF
IsBusOff(st) == st = TWAI_STATE_BUS_OFF

\* the second policy check applying to a RUNNING controller too
NotRunning_always(st) == TRUE

\* the second policy check: status.state != TWAI_STATE_RUNNING
NotRunning(st) == st # TWAI_STATE_RUNNING

\* the bus-off wait taken from the wrong field
BusOffDelay_wrong_field(stored) == stored.timeouts.bus_not_running_timeout

\* the argument of the vTaskDelay after the recovery request
BusOffDelay(stored) == stored.timeouts.bus_off_timeout

\* the argument of the vTaskDelay between stop and start
RestartDelay(stored) == stored.timeouts.bus_not_running_timeout

\* the supervisor with "if" in place of "else if": after the bus-off policy
\* it looks at the status it read again and applies the restart policy too
can_twai_reset_if_needed_both_policies(s, stored, hw, fs) ==
  LET g  == DrvGetStatus(s)
      c0 == <<Call("twai_get_status_info", 0, g.res)>>
      r  == DrvInitiateRecovery(s)
      s1 == IF IsBusOff(g.state) THEN HwStep(r.state, hw) ELSE s
      c1 == IF IsBusOff(g.state)
            THEN <<Call("twai_initiate_recovery", 0, r.res),
                   Call("vTaskDelay", BusOffDelay(stored), "void")>>
            ELSE <<>>
      p  == DrvStop(s1)
      st == DrvStart(p.state, fs)
  IN IF StatusOk(g.res)
     THEN IF NotRunning(g.state)
          THEN [state |-> st.state,
                calls |-> c0 \o c1 \o
                  <<Call("twai_stop", 0, p.res),
                    Call("vTaskDelay", RestartDelay(stored), "void"),
                    Call("twai_start", 0, st.res)>>]
          ELSE [state |-> s, calls |-> c0]
     ELSE [state |-> s, calls |-> c0]

\* the supervisor with the start issued only after a successful stop
can_twai_reset_if_needed_start_if_stopped(s, stored, hw, fs) ==
  LET g  == DrvGetStatus(s)
      c0 == <<Call("twai_get_status_info", 0, g.res)>>
  IN IF StatusOk(g.res)
     THEN IF IsBusOff(g.state)
          THEN LET r == DrvInitiateRecovery(s)
               IN [state |-> HwStep(r.state, hw),
                   calls |-> c0 \o
                     <<Call("twai_initiate_recovery", 0, r.res),
                       Call("vTaskDelay", BusOffDelay(stored), "void")>>]
          ELSE IF NotRunning(g.state)
          THEN LET p  == DrvStop(s)
                   d  == HwStep(p.state, hw)
                   st == DrvStart(d, fs)
               IN IF p.res = ESP_OK
                  THEN [state |-> st.state,
                        calls |-> c0 \o
                          <<Call("twai_stop", 0, p.res),
                            Call("vTaskDelay", RestartDelay(stored), "void"),
                            Call("twai_start", 0, st.res)>>]
                  ELSE [state |-> p.state,
                        calls |-> c0 \o <<Call("twai_stop", 0, p.res)>>]
          ELSE [state |-> s, calls |-> c0]
     ELSE [state |-> s, calls |-> c0]

\* can_twai_reset_if_needed: the recovery supervisor.
\*   hw: the hardware event of HwStep happens during the vTaskDelay,
\*   fs: the environment makes the restart fail
can_twai_reset_if_needed(s, stored, hw, fs) ==
  LET g  == DrvGetStatus(s)
      c0 == <<Call("twai_get_status_info", 0, g.res)>>
  IN IF StatusOk(g.res)
     THEN IF IsBusOff(g.state)
          THEN LET r == DrvInitiateRecovery(s)
               IN [state |-> HwStep(r.state, hw),
                   calls |-> c0 \o
                     <<Call("twai_initiate_recovery", 0, r.res),
                       Call("vTaskDelay", BusOffDelay(stored), "void")>>]
          ELSE IF NotRunning(g.state)
          THEN LET p  == DrvStop(s)
                   d  == HwStep(p.state, hw)
                   st == DrvStart(d, fs)
               IN [state |-> st.state,
                   calls |-> c0 \o
                     <<Call("twai_stop", 0, p.res),
                       Call("vTaskDelay", RestartDelay(stored), "void"),
                       Call("twai_start", 0, st.res)>>]
          ELSE [state |-> s, calls |-> c0]
     ELSE [state |-> s, calls |-> c0]

\* the entry of the call log that marks an invocation of the supervisor
ResetCall == Call("can_twai_reset_if_needed", 0, "void")

\* the length check with >= in place of >
InvalidLength_ge(m) == m.data_length_code >= TWAI_FRAME_MAX_DLC

\* the length check of send: msg->data_length_code > TWAI_FRAME_MAX_DLC
InvalidLength(m) == m.data_length_code > TWAI_FRAME_MAX_DLC

\* the failure check of send with a timeout let through, as in receive
TransmitFailed_but_timeout(r) == r # ESP_OK /\ r # ESP_ERR_TIMEOUT

\* the failure check of send: err != ESP_OK
TransmitFailed(r) == r # ESP_OK

\* can_twai_send that hands the driver a copy with the identifier cut down
\* to its low 8 bits
can_twai_send_masks_id(s, stored, m, r, hw1, hw2, fs) ==
  LET c1 == <<Call("twai_transmit", stored.timeouts.transmit_timeout, r)>>
      s1 == HwStep(s, hw1)
      rs == can_twai_reset_if_needed(s1, stored, hw2, fs)
      m8 == [m EXCEPT !.identifier = m.identifier % 256]
  IN IF InvalidLength(m)
     THEN [ret |-> FALSE, state |-> s, sent |-> <<>>, calls |-> <<>>]
     ELSE IF TransmitFailed(r)
     THEN [ret |-> FALSE, state |-> rs.state, sent |-> <<m8>>,
           calls |-> c1 \o <<ResetCall>> \o rs.calls]
     ELSE [ret |-> TRUE, state |-> s1, sent |-> <<m8>>, calls |-> c1]

\* can_twai_send: validate the length, transmit, recover on failure.
\*   m: the message, r: the result of twai_transmit, hw1: hardware event
\*   while twai_transmit blocks, hw2/fs: as for the supervisor.
\*   sent: the messages passed to twai_transmit
can_twai_send(s, stored, m, r, hw1, hw2, fs) ==
  LET c1 == <<Call("twai_transmit", stored.timeouts.transmit_timeout, r)>>
      s1 == HwStep(s, hw1)
      rs == can_twai_reset_if_needed(s1, stored, hw2, fs)
  IN IF InvalidLength(m)
     THEN [ret |-> FALSE, state |-> s, sent |-> <<>>, calls |-> <<>>]
     ELSE IF TransmitFailed(r)
     THEN [ret |-> FALSE, state |-> rs.state, sent |-> <<m>>,
           calls |-> c1 \o <<ResetCall>> \o rs.calls]
     ELSE [ret |-> TRUE, state |-> s1, sent |-> <<m>>, calls |-> c1]

\* the buffer check left out
NullBuffer_unchecked(isnull) == FALSE

\* the buffer check of receive: msg == NULL
NullBuffer(isnull) == isnull

\* the failure check of receive with a timeout not told apart
ReceiveFailed_any(r) == TRUE

\* the failure check of receive with no failure leading to recovery
ReceiveFailed_none(r) == FALSE

\* the failure check of receive: err != ESP_ERR_TIMEOUT (on the branch where
\* err != ESP_OK)
ReceiveFailed(r) == r # ESP_ERR_TIMEOUT

\* can_twai_receive that receives into a local message and copies it to the
\* caller's buffer only when its length is valid
can_twai_receive_copies_valid(s, stored, buf, isnull, r, f, hw1, hw2, fs) ==
  LET c1 == <<Call("twai_receive", stored.timeouts.receive_timeout, r)>>
      s1 == HwStep(s, hw1)
      rs == can_twai_reset_if_needed(s1, stored, hw2, fs)
      ok == f.data_length_code <= TWAI_FRAME_MAX_DLC
  IN IF NullBuffer(isnull)
     THEN [ret |-> FALSE, state |-> s, msg |-> buf, delivered |-> <<>>,
           calls |-> <<>>]
     ELSE IF r = ESP_OK
     THEN [ret |-> ok, state |-> s1, msg |-> IF ok THEN f ELSE buf,
           delivered |-> <<f>>, calls |-> c1]
     ELSE IF ReceiveFailed(r)
     THEN [ret |-> FALSE, state |-> rs.state, msg |-> buf,
           delivered |-> <<>>, calls |-> c1 \o <<ResetCall>> \o rs.calls]
     ELSE [ret |-> FALSE, state |-> s1, msg |-> buf, delivered |-> <<>>,
           calls |-> c1]

\* can_twai_receive: validate the buffer, receive, check the length,
\* recover on a failure other than timeout.
\*   buf: content of the caller's buffer, isnull: msg == NULL,
\*   r: the result of twai_receive, f: the frame it writes to the buffer
\*   when r is ESP_OK, hw1/hw2/fs: as for send.
\*   delivered: the frames twai_receive wrote to the buffer
can_twai_receive(s, stored, buf, isnull, r, f, hw1, hw2, fs) ==
  LET c1 == <<Call("twai_receive", stored.timeouts.receive_timeout, r)>>
      s1 == HwStep(s, hw1)
      rs == can_twai_reset_if_needed(s1, stored, hw2, fs)
  IN IF NullBuffer(isnull)
     THEN [ret |-> FALSE, state |-> s, msg |-> buf, delivered |-> <<>>,
           calls |-> <<>>]
     ELSE IF r = ESP_OK
     THEN [ret |-> f.data_length_code <= TWAI_FRAME_MAX_DLC,
           state |-> s1, msg |-> f, delivered |-> <<f>>, calls |-> c1]
     ELSE IF ReceiveFailed(r)
     THEN [ret |-> FALSE, state |-> rs.state, msg |-> buf,
           delivered |-> <<>>, calls |-> c1 \o <<ResetCall>> \o rs.calls]
     ELSE [ret |-> FALSE, state |-> s1, msg |-> buf, delivered |-> <<>>,
           calls |-> c1]

\* ------------------------------------------------------------- the state
VARIABLES
  state,        \* state of the TWAI controller / driver
  twai_config,  \* the adapter's stored configuration (static twai_config)
  msg,          \* the caller's receive buffer
  op,           \* the adapter function that returned last
  ret,          \* its return value
  calls,        \* the calls it made, in order
  sent,         \* the messages it passed to twai_transmit
  delivered,    \* the frames twai_receive wrote to the buffer during it
  pre_msg,      \* the caller's receive buffer when it was entered
  arg_cfg,      \* the configuration passed to it, if it was init
  arg_msg,      \* the message passed to it, if it was send
  arg_null,     \* it was receive and was passed a null buffer
  pre_state,    \* controller state when it was entered
  last_ok_cfg,  \* argument of the most recent init that returned true
  bus,          \* the frame the driver accepted last for transmission
  last_sent,    \* the message of the most recent send that returned true
  pc,           \* where each task stands in its call (concurrent use)
  tret,         \* what each task's call returned (concurrent use)
  start0,       \* controller state when the concurrent calls began
  overlap,      \* a task has stepped while the other was inside its call
  budget,       \* disturbances the environment may still cause (retry loop)
  rx_queue,     \* the delivery queue: numbers of the frames it holds
  received,     \* how many frames the producer's receive has returned
  processed,    \* numbers of the frames the consumer has processed, in order
  ppc           \* the producer is at its "receive" or at its "enqueue"

vars == <<state, twai_config, msg, op, ret, calls, sent, delivered, pre_msg,
          arg_cfg, arg_msg, arg_null, pre_state, last_ok_cfg, bus, last_sent,
          pc, tret, start0, overlap, budget,
          rx_queue, received, processed, ppc>>

\* the two tasks of the concurrent use: one calls send, the other receive
Tasks == {"sender", "receiver"}

\* the variables of the concurrent use
tvars == <<pc, tret, start0, overlap>>

\* the variables of the producer/consumer pattern
qvars == <<rx_queue, received, processed, ppc>>

\* the pattern is not running
NoQueue ==
  /\ rx_queue = <<>>
  /\ received = 0
  /\ processed = <<>>
  /\ ppc = "idle"

\* the content of a message buffer nobody has written yet
NoFrame == [identifier |-> 0, data_length_code |-> 0, data |-> "none"]

Init ==
  /\ state = UNINSTALLED
  /\ twai_config = ZeroConfig
  /\ msg = NoFrame
  /\ op = "none"
  /\ ret = FALSE
  /\ calls = <<>>
  /\ sent = <<>>
  /\ delivered = <<>>
  /\ pre_msg = NoFrame
  /\ arg_cfg = ZeroConfig
  /\ arg_msg = NoFrame
  /\ arg_null = FALSE
  /\ pre_state = UNINSTALLED
  /\ last_ok_cfg = ZeroConfig
  /\ bus = <<>>
  /\ last_sent = <<>>
  /\ pc = [t \in Tasks |-> "idle"]
  /\ tret = [t \in Tasks |-> FALSE]
  /\ start0 = UNINSTALLED
  /\ overlap = FALSE
  /\ budget = 0
  /\ NoQueue

\* bookkeeping common to all adapter calls: r is what the function did
Called(name, r) ==
  /\ op' = name
  /\ ret' = r.ret
  /\ calls' = r.calls
  /\ pre_state' = state
  /\ pre_msg' = msg
  /\ state' = r.state
  /\ UNCHANGED tvars
  /\ UNCHANGED budget
  /\ UNCHANGED qvars

CallInit ==
  \E cfg \in Configs, fi \in BOOLEAN, fs \in BOOLEAN :
    LET r == can_twai_init(state, twai_config, cfg, fi, fs)
    IN /\ Called("init", r)
       /\ twai_config' = r.twai_config
       /\ last_ok_cfg' = IF r.ret THEN cfg ELSE last_ok_cfg
       /\ arg_cfg' = cfg
       /\ sent' = <<>>
       /\ delivered' = <<>>
       /\ arg_msg' = NoFrame
       /\ arg_null' = FALSE
       /\ UNCHANGED <<msg, bus, last_sent>>

CallDeinit ==
  LET r == can_twai_deinit(state, twai_config)
  IN /\ Called("deinit", r)
     /\ twai_config' = r.twai_config
     /\ sent' = <<>>
     /\ delivered' = <<>>
     /\ arg_cfg' = ZeroConfig
     /\ arg_msg' = NoFrame
     /\ arg_null' = FALSE
     /\ UNCHANGED <<msg, last_ok_cfg, bus, last_sent>>

\* a send that wipes the stored configuration when it fails
CallSend_wipes_config ==
  \E m \in Frames, r \in DrvTransmitResults(state), hw1 \in BOOLEAN :
  \E hw2 \in SupervisorChoices(r), fs \in SupervisorChoices(r) :
    LET o == can_twai_send(state, twai_config, m, r, hw1, hw2, fs)
    IN /\ Called("send", o)
       /\ sent' = o.sent
       /\ delivered' = <<>>
       /\ arg_cfg' = ZeroConfig
       /\ arg_msg' = m
       /\ arg_null' = FALSE
       /\ bus' = IF o.ret THEN o.sent ELSE bus
       /\ last_sent' = IF o.ret THEN <<m>> ELSE last_sent
       /\ twai_config' = IF o.ret THEN twai_config ELSE ZeroConfig
       /\ UNCHANGED <<msg, last_ok_cfg>>

CallSend ==
  \E m \in Frames, r \in DrvTransmitResults(state), hw1 \in BOOLEAN :
  \E hw2 \in SupervisorChoices(r), fs \in SupervisorChoices(r) :
    LET o == can_twai_send(state, twai_config, m, r, hw1, hw2, fs)
    IN /\ Called("send", o)
       /\ sent' = o.sent
       /\ delivered' = <<>>
       /\ arg_cfg' = ZeroConfig
       /\ arg_msg' = m
       /\ arg_null' = FALSE
       /\ bus' = IF o.ret THEN o.sent ELSE bus
       /\ last_sent' = IF o.ret THEN <<m>> ELSE last_sent
       /\ UNCHANGED <<twai_config, msg, last_ok_cfg>>

CallReceive ==
  \E isnull \in BOOLEAN, r \in DrvReceiveResults(state), hw1 \in BOOLEAN :
  \E f \in DrvReceiveFrames(r) :
  \E hw2 \in SupervisorChoices(r), fs \in SupervisorChoices(r) :
    LET o == can_twai_receive(state, twai_config, msg, isnull, r, f,
                              hw1, hw2, fs)
    IN /\ Called("receive", o)
       /\ msg' = o.msg
       /\ delivered' = o.delivered
       /\ arg_null' = isnull
       /\ sent' = <<>>
       /\ arg_cfg' = ZeroConfig
       /\ arg_msg' = NoFrame
       /\ UNCHANGED <<twai_config, last_ok_cfg, bus, last_sent>>

CallResetIfNeeded ==
  \E hw \in BOOLEAN, fs \in BOOLEAN :
    LET o == can_twai_reset_if_needed(state, twai_config, hw, fs)
    IN /\ Called("reset_if_needed",
                 [ret |-> FALSE, state |-> o.state, calls |-> o.calls])
       /\ sent' = <<>>
       /\ delivered' = <<>>
       /\ arg_cfg' = ZeroConfig
       /\ arg_msg' = NoFrame
       /\ arg_null' = FALSE
       /\ UNCHANGED <<twai_config, msg, last_ok_cfg, bus, last_sent>>

\* bookkeeping common to the steps of the controller hardware
Hardware ==
  /\ op' = "none"
  /\ ret' = FALSE
  /\ calls' = <<>>
  /\ sent' = <<>>
  /\ arg_cfg' = ZeroConfig
  /\ arg_msg' = NoFrame
  /\ arg_null' = FALSE
  /\ pre_state' = state
  /\ pre_msg' = msg
  /\ delivered' = <<>>
  /\ UNCHANGED <<twai_config, msg, last_ok_cfg, bus, last_sent>>
  /\ UNCHANGED tvars
  /\ UNCHANGED budget
  /\ UNCHANGED qvars

\* too many bus errors: the controller goes bus-off
BusOff ==
  /\ state = TWAI_STATE_RUNNING
  /\ state' = TWAI_STATE_BUS_OFF
  /\ Hardware

\* the bus-off recovery sequence completes: the controller is STOPPED
RecoveryComplete ==
  /\ state = TWAI_STATE_RECOVERING
  /\ state' = TWAI_STATE_STOPPED
  /\ Hardware

Next ==
  \/ CallInit
  \/ CallDeinit
  \/ CallSend
  \/ CallReceive
  \/ CallResetIfNeeded
  \/ BusOff
  \/ RecoveryComplete

Spec == Init /\ [][Next]_vars

\* ------------------------------------------------ concurrent send/receive
\* One task calls can_twai_send while another calls can_twai_receive, on an
\* initialised adapter.  A step is one driver call (or one vTaskDelay): the
\* driver serialises its calls, the adapter takes no lock.  pc values:
\*   "call"     at the twai_transmit / twai_receive of lines 107 / 142
\*   "status"   at twai_get_status_info (line 119)
\*   "recover"  at twai_initiate_recovery (line 122)
\*   "wait_off" at vTaskDelay(bus_off_timeout) (line 123)
\*   "stop"     at twai_stop (line 126)
\*   "wait_run" at vTaskDelay(bus_not_running_timeout) (line 127)
\*   "start"    at twai_start (line 128)
\*   "done"     returned
InitConc ==
  /\ state \in DriverStates \ {UNINSTALLED}
  /\ twai_config \in Configs
  /\ last_ok_cfg = twai_config
  /\ msg = NoFrame
  /\ op = "none"
  /\ ret = FALSE
  /\ calls = <<>>
  /\ sent = <<>>
  /\ delivered = <<>>
  /\ pre_msg = NoFrame
  /\ arg_cfg = ZeroConfig
  /\ arg_msg = NoFrame
  /\ arg_null = FALSE
  /\ pre_state = state
  /\ bus = <<>>
  /\ last_sent = <<>>
  /\ pc = [t \in Tasks |-> "call"]
  /\ tret = [t \in Tasks |-> FALSE]
  /\ start0 = state
  /\ overlap = FALSE
  /\ budget = 0
  /\ NoQueue

\* both calls have returned
AllDone == \A t \in Tasks : pc[t] = "done"

\* the variables a step of a task's call leaves alone
Observed ==
  UNCHANGED <<twai_config, op, ret, calls, sent, delivered, pre_msg, arg_cfg,
              arg_msg, arg_null, pre_state, last_ok_cfg, last_sent, start0,
              budget, rx_queue, received, processed, ppc>>

\* the other task is between its first driver call and its return
Inside(t) == \E u \in Tasks \ {t} : pc[u] \notin {"call", "done"}

\* task t returns r
Return(t, r) ==
  /\ pc' = [pc EXCEPT ![t] = "done"]
  /\ tret' = [tret EXCEPT ![t] = r]
  /\ overlap' = (overlap \/ Inside(t))

\* task t goes on to label l
Goto(t, l) ==
  /\ pc' = [pc EXCEPT ![t] = l]
  /\ overlap' = (overlap \/ Inside(t))
  /\ UNCHANGED tret

\* can_twai_send up to the result of twai_transmit (lines 98-115)
SendStep ==
  /\ pc["sender"] = "call"
  /\ \E m \in Frames, r \in DrvTransmitResults(state) :
       /\ IF InvalidLength(m) THEN Return("sender", FALSE)
          ELSE IF TransmitFailed(r) THEN Goto("sender", "status")
          ELSE Return("sender", TRUE)
       /\ bus' = IF ~InvalidLength(m) /\ ~TransmitFailed(r) THEN <<m>> ELSE bus
  /\ Observed
  /\ UNCHANGED <<state, msg>>

\* can_twai_receive up to the result of twai_receive (lines 133-161)
ReceiveStep ==
  /\ pc["receiver"] = "call"
  /\ \E isnull \in BOOLEAN, r \in DrvReceiveResults(state) :
     \E f \in DrvReceiveFrames(r) :
       IF NullBuffer(isnull) THEN Return("receiver", FALSE) /\ UNCHANGED msg
       ELSE IF r = ESP_OK
       THEN /\ Return("receiver", f.data_length_code <= TWAI_FRAME_MAX_DLC)
            /\ msg' = f
       ELSE IF ReceiveFailed(r)
       THEN Goto("receiver", "status") /\ UNCHANGED msg
       ELSE Return("receiver", FALSE) /\ UNCHANGED msg
  /\ Observed
  /\ UNCHANGED <<state, bus>>

\* the supervisor's status query and its choice of policy (lines 119-124)
SupStatus(t) ==
  /\ pc[t] = "status"
  /\ LET g == DrvGetStatus(state)
     IN IF StatusOk(g.res)
        THEN IF IsBusOff(g.state) THEN Goto(t, "recover")
             ELSE IF NotRunning(g.state) THEN Goto(t, "stop")
             ELSE Return(t, FALSE)
        ELSE Return(t, FALSE)
  /\ Observed
  /\ UNCHANGED <<state, msg, bus>>

\* twai_initiate_recovery (line 122)
SupRecover(t) ==
  /\ pc[t] = "recover"
  /\ state' = DrvInitiateRecovery(state).state
  /\ Goto(t, "wait_off")
  /\ Observed
  /\ UNCHANGED <<msg, bus>>

SupWaitBusOff_retries(t) ==
  /\ pc[t] = "wait_off"
  /\ Goto(t, "call")
  /\ Observed
  /\ UNCHANGED <<state, msg, bus>>

SupWaitBusOff_until_recovered(t) ==
  /\ pc[t] = "wait_off"
  /\ IF state = TWAI_STATE_RECOVERING
     THEN UNCHANGED <<pc, tret, overlap>>
     ELSE Return(t, FALSE)
  /\ Observed
  /\ UNCHANGED <<state, msg, bus>>

\* vTaskDelay(bus_off_timeout), then the return to send/receive, which
\* returns false (lines 123, 111, 158)
SupWaitBusOff(t) ==
  /\ pc[t] = "wait_off"
  /\ Return(t, FALSE)
  /\ Observed
  /\ UNCHANGED <<state, msg, bus>>

\* twai_stop (line 126)
SupStop(t) ==
  /\ pc[t] = "stop"
  /\ state' = DrvStop(state).state
  /\ Goto(t, "wait_run")
  /\ Observed
  /\ UNCHANGED <<msg, bus>>

\* vTaskDelay(bus_not_running_timeout) (line 127)
SupWaitRestart(t) ==
  /\ pc[t] = "wait_run"
  /\ Goto(t, "start")
  /\ Observed
  /\ UNCHANGED <<state, msg, bus>>

\* twai_start, then the return to send/receive, which returns false
\* (lines 128, 111, 158)
SupStart(t) ==
  /\ pc[t] = "start"
  /\ \E fs \in BOOLEAN : state' = DrvStart(state, fs).state
  /\ Return(t, FALSE)
  /\ Observed
  /\ UNCHANGED <<msg, bus>>

\* the steps of the tasks
TaskSteps ==
  \/ SendStep
  \/ ReceiveStep
  \/ \E t \in Tasks : SupStatus(t)
  \/ \E t \in Tasks : SupRecover(t)
  \/ \E t \in Tasks : SupWaitBusOff(t)
  \/ \E t \in Tasks : SupStop(t)
  \/ \E t \in Tasks : SupWaitRestart(t)
  \/ \E t \in Tasks : SupStart(t)

\* the controller hardware acts while the calls are in progress
BusOffDuring == ~AllDone /\ BusOff

RecoveryCompleteDuring == ~AllDone /\ RecoveryComplete

NextConc ==
  \/ SendStep
  \/ ReceiveStep
  \/ \E t \in Tasks : SupStatus(t)
  \/ \E t \in Tasks : SupRecover(t)
  \/ \E t \in Tasks : SupWaitBusOff(t)
  \/ \E t \in Tasks : SupStop(t)
  \/ \E t \in Tasks : SupWaitRestart(t)
  \/ \E t \in Tasks : SupStart(t)
  \/ BusOffDuring
  \/ RecoveryCompleteDuring

SpecConc == InitConc /\ [][NextConc]_vars

\* the scheduler runs every task that can run; the hardware owes nothing
SpecConcFair == SpecConc /\ WF_vars(TaskSteps)

\* the controller states the hardware can reach from s in one event
HwAny(s) == {s, HwStep(s, TRUE)}

\* return value and final controller state of a whole send from state s
SendOutcomes(s, stored) ==
  UNION { UNION { { LET o == can_twai_send(s, stored, m, r, hw1, hw2, fs)
                    IN [ret |-> o.ret, state |-> o.state]
                    : hw1 \in BOOLEAN, hw2 \in BOOLEAN, fs \in BOOLEAN }
                  : r \in DrvTransmitResults(s) }
          : m \in Frames }

\* return value and final controller state of a whole receive from state s
ReceiveOutcomes(s, stored) ==
  UNION { UNION { { LET o == can_twai_receive(s, stored, NoFrame, isnull, r, f,
                                              hw1, hw2, fs)
                    IN [ret |-> o.ret, state |-> o.state]
                    : isnull \in BOOLEAN, hw1 \in BOOLEAN, hw2 \in BOOLEAN,
                      fs \in BOOLEAN }
                  : f \in DrvReceiveFrames(r) }
          : r \in DrvReceiveResults(s) }

\* <<send's result, receive's result, final state>> of the two calls made
\* one after the other, in either order, from state s0
SeqOutcomes(s0, stored) ==
  (UNION { UNION { UNION { { <<a.ret, b.ret, b.state>>
                             : b \in ReceiveOutcomes(s2, stored) }
                           : s2 \in HwAny(a.state) }
                   : a \in SendOutcomes(s1, stored) }
           : s1 \in HwAny(s0) })
  \cup
  (UNION { UNION { UNION { { <<a.ret, b.ret, a.state>>
                             : a \in SendOutcomes(s2, stored) }
                           : s2 \in HwAny(b.state) }
                   : b \in ReceiveOutcomes(s1, stored) }
           : s1 \in HwAny(s0) })

\* ------------------------------------------------- the sender's retry loop
\* A task calls can_twai_send again and again (examples/send/main/main.c),
\* each call a whole can_twai_send.  The bus is disturbed at most
\* MaxDisturbances times and is healthy afterwards: a started recovery
\* completes, a RUNNING controller accepts the frame, a restart succeeds.
InitHeal ==
  /\ state \in DriverStates \ {UNINSTALLED}
  /\ twai_config \in Configs
  /\ last_ok_cfg = twai_config
  /\ msg = NoFrame
  /\ op = "none"
  /\ ret = FALSE
  /\ calls = <<>>
  /\ sent = <<>>
  /\ delivered = <<>>
  /\ pre_msg = NoFrame
  /\ arg_cfg = ZeroConfig
  /\ arg_msg = NoFrame
  /\ arg_null = FALSE
  /\ pre_state = state
  /\ bus = <<>>
  /\ last_sent = <<>>
  /\ pc = [t \in Tasks |-> "idle"]
  /\ tret = [t \in Tasks |-> FALSE]
  /\ start0 = state
  /\ overlap = FALSE
  /\ budget \in 0..MaxDisturbances
  /\ NoQueue

\* the frames the sender builds: one identifier, a valid length; the
\* payload plays no part in the recovery and is kept to one value
SenderFrames ==
  {m \in Frames : /\ ~InvalidLength(m)
                  /\ m.identifier = 291
                  /\ m.data = "P"}

\* the environment works against a send from state s: a RUNNING controller
\* does not accept the frame or goes bus-off, or the restart fails
Disturbance(s, r, hw1, fs) ==
  \/ s = TWAI_STATE_RUNNING /\ (r # ESP_OK \/ hw1)
  \/ fs

\* one turn of the sender's loop (main.c lines 54-80): a whole can_twai_send
HealSend ==
  \E m \in SenderFrames, r \in DrvTransmitResults(state), hw1 \in BOOLEAN :
  \E hw2 \in SupervisorChoices(r), fs \in SupervisorChoices(r) :
    LET o == can_twai_send(state, twai_config, m, r, hw1, hw2, fs)
        x == Disturbance(state, r, hw1, fs)
    IN /\ x => budget > 0
       /\ budget' = IF x THEN budget - 1 ELSE budget
       /\ op' = "send"
       /\ ret' = o.ret
       /\ calls' = o.calls
       /\ pre_state' = state
       /\ pre_msg' = msg
       /\ state' = o.state
       /\ sent' = o.sent
       /\ delivered' = <<>>
       /\ arg_cfg' = ZeroConfig
       /\ arg_msg' = m
       /\ arg_null' = FALSE
       /\ bus' = IF o.ret THEN o.sent ELSE bus
       /\ last_sent' = IF o.ret THEN <<m>> ELSE last_sent
       /\ UNCHANGED <<twai_config, msg, last_ok_cfg>>
       /\ UNCHANGED tvars
       /\ UNCHANGED qvars

\* the controller goes bus-off between two sends
HealBusOff ==
  /\ budget > 0
  /\ state = TWAI_STATE_RUNNING
  /\ state' = TWAI_STATE_BUS_OFF
  /\ budget' = budget - 1
  /\ op' = "none"
  /\ ret' = FALSE
  /\ calls' = <<>>
  /\ sent' = <<>>
  /\ arg_cfg' = ZeroConfig
  /\ arg_msg' = NoFrame
  /\ arg_null' = FALSE
  /\ pre_state' = state
  /\ pre_msg' = msg
  /\ delivered' = <<>>
  /\ UNCHANGED <<twai_config, msg, last_ok_cfg, bus, last_sent>>
  /\ UNCHANGED tvars
  /\ UNCHANGED qvars

NextHeal ==
  \/ HealSend
  \/ HealBusOff
  \/ RecoveryComplete

\* the sender's task keeps running and the bus recovers
SpecHeal ==
  /\ InitHeal
  /\ [][NextHeal]_vars
  /\ WF_vars(HealSend)
  /\ WF_vars(RecoveryComplete)

\* ------------------------------------------- producer/consumer reception
\* examples/receive_interrupt: the producer task calls can_twai_receive and
\* puts each frame it gets on rx_queue without waiting; the consumer task
\* takes frames off rx_queue and processes them.  The frames of a burst are
\* numbered 1, 2, ... in the order the driver delivers them; the queue and
\* the consumer's record hold the numbers.
InitQueue ==
  /\ state = TWAI_STATE_RUNNING
  /\ twai_config \in Configs
  /\ last_ok_cfg = twai_config
  /\ msg = NoFrame
  /\ op = "none"
  /\ ret = FALSE
  /\ calls = <<>>
  /\ sent = <<>>
  /\ delivered = <<>>
  /\ pre_msg = NoFrame
  /\ arg_cfg = ZeroConfig
  /\ arg_msg = NoFrame
  /\ arg_null = FALSE
  /\ pre_state = state
  /\ bus = <<>>
  /\ last_sent = <<>>
  /\ pc = [t \in Tasks |-> "idle"]
  /\ tret = [t \in Tasks |-> FALSE]
  /\ start0 = state
  /\ overlap = FALSE
  /\ budget = 0
  /\ rx_queue = <<>>
  /\ received = 0
  /\ processed = <<>>
  /\ ppc = "receive"

\* frame number n of the burst, as the driver delivers it
BurstFrame(n) ==
  [identifier |-> IF n % 2 = 1 THEN 291 ELSE 2047,
   data_length_code |-> TWAI_FRAME_MAX_DLC,
   data |-> "P"]

\* the variables the producer and the consumer leave alone
QueueObserved ==
  UNCHANGED <<twai_config, op, ret, calls, sent, delivered, pre_msg, arg_cfg,
              arg_msg, arg_null, pre_state, last_ok_cfg, bus, last_sent,
              pc, tret, start0, overlap, budget>>

\* received_to_queue up to the result of can_twai_receive (lines 45-53):
\* true takes the producer to xQueueSend, false to the 1 ms sleep and round
ProducerReceive ==
  /\ ppc = "receive"
  /\ received < MaxBurst
  /\ \E r \in DrvReceiveResults(state) :
       LET f == IF r = ESP_OK THEN BurstFrame(received + 1) ELSE NoFrame
           o == can_twai_receive(state, twai_config, msg, FALSE, r, f,
                                 FALSE, FALSE, FALSE)
       IN /\ state' = o.state
          /\ msg' = o.msg
          /\ received' = IF o.ret THEN received + 1 ELSE received
          /\ ppc' = IF o.ret THEN "enqueue" ELSE "receive"
  /\ QueueObserved
  /\ UNCHANGED <<rx_queue, processed>>

\* (void)xQueueSend(rx_queue, msg, 0) (line 48): a full queue refuses the
\* frame at once and the result is not looked at
ProducerEnqueue ==
  /\ ppc = "enqueue"
  /\ rx_queue' = IF Len(rx_queue) < RX_QUEUE_LENGTH
                  THEN Append(rx_queue, received)
                  ELSE rx_queue
  /\ ppc' = "receive"
  /\ QueueObserved
  /\ UNCHANGED <<state, msg, received, processed>>

\* xQueueReceive(rx_queue, &message, portMAX_DELAY) and
\* process_received_message (lines 70-71)
ConsumerProcess ==
  /\ rx_queue # <<>>
  /\ processed' = Append(processed, Head(rx_queue))
  /\ rx_queue' = Tail(rx_queue)
  /\ QueueObserved
  /\ UNCHANGED <<state, msg, received, ppc>>

NextQueue ==
  \/ ProducerReceive
  \/ ProducerEnqueue
  \/ ConsumerProcess

\* both tasks are scheduled whenever they can run
SpecQueue ==
  /\ InitQueue
  /\ [][NextQueue]_vars
  /\ WF_vars(ProducerReceive)
  /\ WF_vars(ProducerEnqueue)
  /\ WF_vars(ConsumerProcess)

TypeOK ==
  /\ state \in DriverStates
  /\ twai_config \in Configs \cup {ZeroConfig}
  /\ msg \in Frames \cup {NoFrame}
  /\ ret \in BOOLEAN
  /\ op \in {"none", "init", "deinit", "send", "receive", "reset_if_needed"}

\* ------------------------------------------------------------ properties
\* number of calls of fn in the call log of the last adapter function
NumCalls(fn) == Cardinality({i \in DOMAIN calls : calls[i].fn = fn})

\* the last adapter function called fn and the call had result res
Did(fn, res) ==
  \E i \in DOMAIN calls : calls[i].fn = fn /\ calls[i].res = res

\* C1: every deinit of an installed driver attempts both steps: twai_stop
\* and, even when the stop failed, twai_driver_uninstall.
C1_DeinitAttemptsBoth ==
  (op = "deinit" /\ pre_state # UNINSTALLED) =>
    /\ NumCalls("twai_stop") = 1
    /\ NumCalls("twai_driver_uninstall") = 1

\* C2: deinit returns true exactly when the stop step and the uninstall
\* step both succeeded; a failed step makes it return false.
C2_DeinitResult ==
  op = "deinit" =>
    /\ ret <=> (Did("twai_stop", ESP_OK) /\ Did("twai_driver_uninstall", ESP_OK))
    /\ (\E i \in DOMAIN calls : calls[i].res # ESP_OK) => ~ret

C2_Witness ==
  /\ op = "deinit"
  /\ ret
  /\ pre_state = TWAI_STATE_RUNNING
  /\ state = UNINSTALLED

\* C3 as stated: after a successful deinit the adapter holds no
\* configuration (the stored configuration is cleared).
C3_ConfigDiscarded ==
  (op = "deinit" /\ ret) => twai_config = ZeroConfig

\* C3 as amended: after a successful deinit the driver is uninstalled and
\* the adapter still holds, unchanged, the configuration stored by the most
\* recent successful init.
C3_ConfigRetained ==
  (op = "deinit" /\ ret) =>
    /\ state = UNINSTALLED
    /\ twai_config \in Configs
    /\ twai_config = last_ok_cfg

C3_Witness ==
  /\ op = "deinit"
  /\ ret
  /\ twai_config \in Configs

\* C4: when init returns false, no driver resource acquired by the call
\* remains: either the install failed (the controller is as it was), or the
\* install succeeded, the start failed and the driver was uninstalled again.
C4_FailedInitReleases ==
  (op = "init" /\ ~ret) =>
    \/ /\ Len(calls) = 1
       /\ calls[1].fn = "twai_driver_install"
       /\ calls[1].res # ESP_OK
       /\ state = pre_state
    \/ /\ Len(calls) = 3
       /\ calls[1] = Call("twai_driver_install", 0, ESP_OK)
       /\ calls[2].fn = "twai_start"
       /\ calls[2].res # ESP_OK
       /\ calls[3] = Call("twai_driver_uninstall", 0, ESP_OK)
       /\ pre_state = UNINSTALLED
       /\ state = UNINSTALLED

C4_Witness ==
  /\ op = "init"
  /\ ~ret
  /\ Did("twai_driver_install", ESP_OK)
  /\ Did("twai_start", ESP_FAIL)
  /\ state = UNINSTALLED

\* C5: the stored configuration always equals the argument of the most
\* recent init that returned true (a failed init does not retain its
\* argument), and a successful init stores its argument and leaves the
\* controller RUNNING.
C5_StoredConfig ==
  /\ twai_config = last_ok_cfg
  /\ (op = "init" /\ ret) =>
       (twai_config = arg_cfg /\ state = TWAI_STATE_RUNNING)

C5_Witness ==
  /\ op = "init"
  /\ ~ret
  /\ twai_config \in Configs
  /\ arg_cfg # twai_config

\* C6: a send of a message longer than TWAI_FRAME_MAX_DLC returns false
\* without calling twai_transmit or the supervisor (it makes no call at
\* all); a message of exactly TWAI_FRAME_MAX_DLC is passed to twai_transmit.
C6_OversizedRejected ==
  /\ (op = "send" /\ arg_msg.data_length_code > TWAI_FRAME_MAX_DLC) =>
       (~ret /\ calls = <<>> /\ sent = <<>> /\ state = pre_state)
  /\ (op = "send" /\ arg_msg.data_length_code = TWAI_FRAME_MAX_DLC) =>
       (NumCalls("twai_transmit") = 1 /\ sent = <<arg_msg>>)

C6_Witness ==
  /\ op = "send"
  /\ arg_msg.data_length_code = TWAI_FRAME_MAX_DLC + 1
  /\ pre_state = TWAI_STATE_RUNNING

\* C7: a send of a message of valid length calls twai_transmit exactly once,
\* with the stored transmit timeout; when the result is not ESP_OK (a
\* timeout included) it invokes the supervisor exactly once and returns
\* false; when it is ESP_OK it returns true and makes no other call.
C7_SendOnce ==
  (op = "send" /\ arg_msg.data_length_code <= TWAI_FRAME_MAX_DLC) =>
    /\ NumCalls("twai_transmit") = 1
    /\ calls[1].fn = "twai_transmit"
    /\ calls[1].ticks = twai_config.timeouts.transmit_timeout
    /\ sent = <<arg_msg>>
    /\ IF calls[1].res = ESP_OK
       THEN ret /\ Len(calls) = 1
       ELSE /\ ~ret
            /\ Len(calls) >= 2
            /\ calls[2] = ResetCall
            /\ NumCalls("can_twai_reset_if_needed") = 1
            /\ NumCalls("twai_get_status_info") = 1

C7_Witness ==
  /\ op = "send"
  /\ twai_config \in Configs
  /\ calls # <<>>
  /\ calls[1].res = ESP_ERR_TIMEOUT
  /\ NumCalls("can_twai_reset_if_needed") = 1

\* C8: a receive with a null buffer returns false without calling
\* twai_receive or the supervisor (it makes no call at all).
C8_NullRejected ==
  (op = "receive" /\ arg_null) =>
    (~ret /\ calls = <<>> /\ state = pre_state)

C8_Witness ==
  /\ op = "receive"
  /\ arg_null
  /\ pre_state = TWAI_STATE_RUNNING

\* C9: a receive whose twai_receive timed out returns false and does not
\* invoke the supervisor: it makes no status query, recovery request, stop,
\* start or delay, in any controller state.
C9_TimeoutNoRecovery ==
  (op = "receive" /\ Did("twai_receive", ESP_ERR_TIMEOUT)) =>
    /\ ~ret
    /\ calls =
         <<Call("twai_receive", twai_config.timeouts.receive_timeout,
                ESP_ERR_TIMEOUT)>>
    /\ state \in {pre_state, HwStep(pre_state, TRUE)}

C9_Witness ==
  /\ op = "receive"
  /\ Did("twai_receive", ESP_ERR_TIMEOUT)
  /\ pre_state = TWAI_STATE_BUS_OFF
  /\ state = TWAI_STATE_BUS_OFF

\* C10: a receive whose twai_receive failed with a result other than
\* timeout invokes the supervisor exactly once and returns false.
C10_ReceiveFailureRecovers ==
  (/\ op = "receive"
   /\ ~arg_null
   /\ ~Did("twai_receive", ESP_OK)
   /\ ~Did("twai_receive", ESP_ERR_TIMEOUT)) =>
    /\ ~ret
    /\ NumCalls("twai_receive") = 1
    /\ calls[1].fn = "twai_receive"
    /\ Len(calls) >= 2
    /\ calls[2] = ResetCall
    /\ NumCalls("can_twai_reset_if_needed") = 1
    /\ NumCalls("twai_get_status_info") = 1

C10_Witness ==
  /\ op = "receive"
  /\ Did("twai_receive", ESP_FAIL)
  /\ pre_state = TWAI_STATE_BUS_OFF
  /\ Did("twai_initiate_recovery", ESP_OK)

\* the part of the call log written by the supervisor: the whole log of a
\* direct call, the entries after the ResetCall of a send or receive
SupLog ==
  IF op = "reset_if_needed" THEN calls
  ELSE IF \E i \in DOMAIN calls : calls[i] = ResetCall
  THEN LET i == CHOOSE j \in DOMAIN calls : calls[j] = ResetCall
       IN SubSeq(calls, i + 1, Len(calls))
  ELSE <<>>

\* C11 as stated: when twai_receive succeeds with a frame of invalid length,
\* receive returns false, triggers no recovery and the caller's buffer is not
\* populated with the frame; the buffer changes only when receive returns
\* true.
C11_BufferOnlyOnSuccess ==
  op = "receive" =>
    /\ (delivered # <<>> /\ InvalidLength(delivered[1])) =>
         (~ret /\ SupLog = <<>> /\ msg = pre_msg)
    /\ ~ret => msg = pre_msg

\* C11 as amended: when twai_receive succeeds with a frame of invalid
\* length, receive returns false and triggers no recovery, but the frame has
\* been written to the caller's buffer; the buffer is changed exactly when
\* twai_receive succeeded, whatever receive returns.
C11_BufferHoldsDelivered ==
  op = "receive" =>
    IF delivered # <<>>
    THEN /\ msg = delivered[1]
         /\ ret <=> ~InvalidLength(delivered[1])
         /\ SupLog = <<>>
         /\ Len(calls) = 1
    ELSE ~ret /\ msg = pre_msg

C11_Witness ==
  /\ op = "receive"
  /\ delivered # <<>>
  /\ InvalidLength(delivered[1])
  /\ ~ret
  /\ msg # pre_msg
  /\ pre_msg \in Frames

\* C12: a supervisor that finds BUS_OFF issues one recovery request, then
\* one delay of the stored bus_off_timeout, and returns: no stop, no start,
\* no second status query; the controller is RECOVERING when it returns
\* unless the recovery completed during the delay.
C12_BusOffPolicy ==
  (SupLog # <<>> /\ pre_state = TWAI_STATE_BUS_OFF) =>
    /\ SupLog = <<Call("twai_get_status_info", 0, ESP_OK),
                  Call("twai_initiate_recovery", 0, ESP_OK),
                  Call("vTaskDelay", twai_config.timeouts.bus_off_timeout,
                       "void")>>
    /\ state \in {TWAI_STATE_RECOVERING, TWAI_STATE_STOPPED}

C12_Witness ==
  /\ op = "reset_if_needed"
  /\ pre_state = TWAI_STATE_BUS_OFF
  /\ twai_config \in Configs
  /\ state = TWAI_STATE_RECOVERING

\* C13: a supervisor that finds STOPPED or RECOVERING issues stop, a delay
\* of the stored bus_not_running_timeout and start, in that order; the start
\* is issued whatever the stop returned, and the results of stop and start
\* do not change what the supervisor does.
C13_RestartPolicy ==
  (SupLog # <<>> /\
   pre_state \in {TWAI_STATE_STOPPED, TWAI_STATE_RECOVERING}) =>
    /\ Len(SupLog) = 4
    /\ SupLog[1] = Call("twai_get_status_info", 0, ESP_OK)
    /\ SupLog[2].fn = "twai_stop"
    /\ SupLog[3] = Call("vTaskDelay",
                        twai_config.timeouts.bus_not_running_timeout, "void")
    /\ SupLog[4].fn = "twai_start"

C13_Witness ==
  /\ op = "reset_if_needed"
  /\ pre_state = TWAI_STATE_STOPPED
  /\ twai_config \in Configs
  /\ Did("twai_stop", ESP_ERR_INVALID_STATE)
  /\ Did("twai_start", ESP_OK)
  /\ state = TWAI_STATE_RUNNING

\* C14: a supervisor called on a RUNNING controller only queries the status:
\* no recovery, stop, start or delay, and the controller state, the stored
\* configuration and the caller's buffer are unchanged; so any number of
\* such calls leaves the state one call leaves.
C14_RunningNoOp ==
  [][(op' = "reset_if_needed" /\ state = TWAI_STATE_RUNNING) =>
       /\ calls' = <<Call("twai_get_status_info", 0, ESP_OK)>>
       /\ state' = state
       /\ twai_config' = twai_config
       /\ msg' = msg
       /\ bus' = bus]_vars

C14_Witness ==
  /\ op = "reset_if_needed"
  /\ pre_state = TWAI_STATE_RUNNING
  /\ state = TWAI_STATE_RUNNING
  /\ Len(calls) = 1

\* C15: a supervisor whose status query fails does nothing else: no
\* recovery request, stop, start or delay, and the controller is as it was.
C15_QueryFailureAbsorbed ==
  (SupLog # <<>> /\ SupLog[1].res # ESP_OK) =>
    /\ SupLog = <<Call("twai_get_status_info", 0, SupLog[1].res)>>
    /\ state = pre_state

C15_Witness ==
  /\ op = "send"
  /\ SupLog # <<>>
  /\ SupLog[1] = Call("twai_get_status_info", 0, ESP_ERR_INVALID_STATE)
  /\ ~ret

\* C19: send, receive and the supervisor leave the stored configuration
\* unchanged, on every path.
C19_ConfigReadOnly ==
  [][op' \in {"send", "receive", "reset_if_needed"} =>
       twai_config' = twai_config]_vars

C19_Witness ==
  /\ op = "send"
  /\ ~ret
  /\ twai_config \in Configs
  /\ Did("twai_initiate_recovery", ESP_OK)

\* C20: send passes the caller's message unchanged to twai_transmit, and a
\* receive that returns true leaves in the buffer exactly the frame
\* twai_receive delivered; so when the driver delivers the frame it accepted
\* last, the caller receives the identifier and payload passed to send.
C20_RoundTrip ==
  /\ (op = "send" /\ sent # <<>>) => sent = <<arg_msg>>
  /\ bus = last_sent
  /\ (op = "receive" /\ ret) => (delivered # <<>> /\ msg = delivered[1])
  /\ (op = "receive" /\ ret /\ delivered = bus) =>
       /\ msg.identifier = last_sent[1].identifier
       /\ msg.data = last_sent[1].data
       /\ msg.data_length_code = last_sent[1].data_length_code

C20_Witness ==
  /\ op = "receive"
  /\ ret
  /\ delivered = bus
  /\ msg # pre_msg
  /\ msg.identifier = 2047

\* C16: whatever the interleaving of a send in one task with a receive in
\* another, the two return values and the final controller state are ones
\* the two calls made one after the other, in some order, can produce.
C16_ConcurrentAsSequential ==
  AllDone =>
    <<tret["sender"], tret["receiver"], state>>
      \in SeqOutcomes(start0, twai_config)

C16_Witness ==
  /\ AllDone
  /\ overlap
  /\ start0 = TWAI_STATE_BUS_OFF
  /\ state = TWAI_STATE_RUNNING
  /\ ~tret["sender"]
  /\ ~tret["receiver"]

\* C18: every call of send and of receive, the supervisor invocation it may
\* make included, returns, whatever the controller state and whatever the
\* driver answers, as long as the task is scheduled.
C18_CallsTerminate == <>AllDone

C18_Witness ==
  /\ AllDone
  /\ start0 = TWAI_STATE_RECOVERING
  /\ state = TWAI_STATE_RECOVERING

\* a send has just returned true
SendSucceeded == op = "send" /\ ret /\ pre_state = TWAI_STATE_RUNNING

\* C17: a controller that is bus-off, or recovering, or stopped after a
\* recovery, is brought back to RUNNING by the retrying sender once the bus
\* has recovered, and a later send succeeds.
C17_SelfHeals ==
  (state \in {TWAI_STATE_BUS_OFF, TWAI_STATE_RECOVERING, TWAI_STATE_STOPPED})
    ~> SendSucceeded

C17_Witness ==
  /\ start0 = TWAI_STATE_BUS_OFF
  /\ budget = 0
  /\ SendSucceeded
  /\ state = TWAI_STATE_RUNNING

\* the frames 1..n in order
UpTo(n) == [i \in 1..n |-> i]

\* the frame the producer holds between its receive and its enqueue
InHand == IF ppc = "enqueue" THEN <<received>> ELSE <<>>

\* C21: every frame the producer's receive returned is processed, queued or
\* about to be queued, in the order received: none is lost.
C21_NoFrameLost ==
  ppc # "idle" => processed \o rx_queue \o InHand = UpTo(received)

\* a task issues twai_stop
StopIssued == \E t \in Tasks : pc[t] = "stop" /\ pc'[t] = "wait_run"

\* C22: whatever the interleaving of the supervisor runs of two tasks, a
\* twai_stop is issued only while the controller is not RUNNING.
C22_NeverStopsRunning ==
  [][StopIssued => state # TWAI_STATE_RUNNING]_vars

\* the ticks the calls of the log may block for, added up
RECURSIVE TotalTicks(_)
TotalTicks(log) ==
  IF log = <<>> THEN 0 ELSE Head(log).ticks + TotalTicks(Tail(log))

\* the longer of the two recovery delays of the stored configuration
RecoveryTimeout ==
  IF BusOffDelay(twai_config) > RestartDelay(twai_config)
  THEN BusOffDelay(twai_config)
  ELSE RestartDelay(twai_config)

\* the timeout of the driver call the last adapter function made
OperationTimeout ==
  IF op = "send" THEN twai_config.timeouts.transmit_timeout
  ELSE IF op = "receive" THEN twai_config.timeouts.receive_timeout
  ELSE 0

\* how many times the last adapter function ran the supervisor
SupervisorRuns ==
  IF op = "reset_if_needed" THEN 1 ELSE NumCalls("can_twai_reset_if_needed")

\* C23: a send or receive runs the supervisor at most once; a supervisor run
\* queries the status exactly once, applies at most one of the two policies
\* and delays at most once; the call blocks for at most its operation
\* timeout plus one recovery timeout.
C23_BoundedRecovery ==
  op \in {"send", "receive", "reset_if_needed"} =>
    /\ SupervisorRuns <= 1
    /\ NumCalls("twai_get_status_info") = SupervisorRuns
    /\ NumCalls("twai_initiate_recovery") <= 1
    /\ NumCalls("twai_stop") <= 1
    /\ NumCalls("twai_start") <= 1
    /\ NumCalls("twai_initiate_recovery") = 0
         \/ NumCalls("twai_stop") + NumCalls("twai_start") = 0
    /\ NumCalls("vTaskDelay") <= 1
    /\ TotalTicks(calls) <= OperationTimeout + RecoveryTimeout

C23_Witness ==
  /\ op = "send"
  /\ pre_state = TWAI_STATE_RUNNING
  /\ SupervisorRuns = 1
  /\ NumCalls("twai_initiate_recovery") = 1
  /\ NumCalls("vTaskDelay") = 1
  /\ TotalTicks(calls) = OperationTimeout + RecoveryTimeout - 1

====
